---- MODULE Spec2Model ----
(***************************************************************************)
(* Clearnode broker: the double-entry ledger, the virtual application      *)
(* sessions (create_app_session / close_app_session) and the custody       *)
(* event handler (Created / Joined / Resized / Closed), as a state machine *)
(* over the relational store.                                              *)
(*                                                                         *)
(* Ledger amounts are shopspring decimals; they are modelled exactly as    *)
(* integers counting units of 10^-Scale.  On-chain amounts are integers in *)
(* token base units; uint64/int64 conversions are modelled on words of     *)
(* WordBits bits.                                                          *)
(***************************************************************************)
EXTENDS Integers, Sequences, FiniteSets, TLC

\* ---------------------------------------------------------------- bounds
\* Number of operations (RPC requests and chain events) in one behaviour.
MaxSteps == 4
\* Width of the machine words standing for uint64 / int64.
WordBits == 5

\* ---------------------------------------------------------------- words
RECURSIVE Pow(_, _)
Pow(b, e) == IF e = 0 THEN 1 ELSE b * Pow(b, e - 1)

WordMod == Pow(2, WordBits)

\* Go conversion uint64(x) of a signed value: wrap-around modulo 2^w.
ToUint64(x) == x % WordMod

\* Go conversion int64(x) of an unsigned value: two's complement.
ToInt64(x) == IF (x % WordMod) >= WordMod \div 2 THEN (x % WordMod) - WordMod ELSE x % WordMod

\* ---------------------------------------------------------------- domains
Broker == "K"
Users == {"A", "B"}
Addr == Users \cup {"C"}

\* The asset registry: (token_address, chain_id) -> (symbol, decimals), for the
\* one chain this custody instance listens to.  Token "tX" is not registered;
\* token "tS" is registered under a symbol that is its own address.
AssetTable ==
  { [token |-> "tU", symbol |-> "usdc", decimals |-> 1],
    [token |-> "tE", symbol |-> "eth", decimals |-> 2],
    [token |-> "tS", symbol |-> "tS", decimals |-> 1] }
\* The ledger's fixed point: one unit is 10^-Scale, fine enough for every token.
Scale == CHOOSE d \in {a.decimals : a \in AssetTable} : \A a \in AssetTable : a.decimals <= d
Tokens == {"tU", "tE", "tX", "tS"}
\* The symbols app session requests name.
Symbols == {"usdc", "eth"}

NoAsset == [token |-> "none", symbol |-> "none", decimals |-> 0]

\* GetAssetByToken: the registry row of the token, or nil (NoAsset).
GetAssetByToken(token) ==
  IF \E a \in AssetTable : a.token = token
  THEN CHOOSE a \in AssetTable : a.token = token
  ELSE NoAsset

\* GetAssetBySymbol: a registry row of the symbol, or nil (NoAsset).
GetAssetBySymbol(symbol) ==
  IF \E a \in AssetTable : a.symbol = symbol
  THEN CHOOSE a \in AssetTable : a.symbol = symbol
  ELSE NoAsset

\* decimal.NewFromBigInt(amount, -decimals): base units to ledger decimals.
NewFromBigInt(amount, decimals) == amount * Pow(10, Scale - decimals)

\* d.Shift(decimals).BigInt(): ledger decimals to base units, the fraction cut
\* off (towards zero).
ShiftBigInt(amount, decimals) ==
  IF amount >= 0 THEN amount \div Pow(10, Scale - decimals)
  ELSE 0 - ((0 - amount) \div Pow(10, Scale - decimals))

\* big.Int.Uint64(): the low word of the absolute value.
BigUint64(x) == IF x >= 0 THEN x % WordMod ELSE (0 - x) % WordMod

\* ---------------------------------------------------------------- ledger
\* One row of the ledger table.
Entry(accountID, participant, assetSymbol, credit, debit) ==
  [account_id |-> accountID, participant |-> participant,
   asset_symbol |-> assetSymbol, credit |-> credit, debit |-> debit]

\* Record creating the row also when the amount is zero.
RecordZeroRow(rows, participant, accountID, assetSymbol, amount) ==
  IF amount > 0 THEN Append(rows, Entry(accountID, participant, assetSymbol, amount, 0))
  ELSE Append(rows, Entry(accountID, participant, assetSymbol, 0, 0 - amount))

\* ParticipantLedger.Record: append a credit row for a positive amount, a debit
\* row for a negative amount, nothing for zero.  rows is the table inside the
\* running transaction, participant the ledger's owner.
Record(rows, participant, accountID, assetSymbol, amount) ==
  IF amount > 0 THEN Append(rows, Entry(accountID, participant, assetSymbol, amount, 0))
  ELSE IF amount < 0 THEN Append(rows, Entry(accountID, participant, assetSymbol, 0, 0 - amount))
  ELSE rows

RECURSIVE SumRows(_, _)
\* COALESCE(SUM(credit),0) - COALESCE(SUM(debit),0) over rows i.. of a selection.
SumRows(rows, i) ==
  IF i > Len(rows) THEN 0
  ELSE rows[i].credit - rows[i].debit + SumRows(rows, i + 1)

\* ParticipantLedger.Balance: WHERE account_id = ? AND asset_symbol = ?.  The
\* query does not filter on the ledger's participant.
Balance(rows, participant, accountID, assetSymbol) ==
  LET Sel(e) == e.account_id = accountID /\ e.asset_symbol = assetSymbol
  IN  SumRows(SelectSeq(rows, Sel), 1)

\* ParticipantLedger.GetBalances, one asset of it:
\* WHERE account_id = ? AND participant = ? GROUP BY asset_symbol.
GetBalances(rows, participant, accountID, assetSymbol) ==
  LET Sel(e) == e.account_id = accountID /\ e.participant = participant
                /\ e.asset_symbol = assetSymbol
  IN  SumRows(SelectSeq(rows, Sel), 1)

\* ---------------------------------------------------------------- state
VARIABLES
  ledger,    \* the ledger table: the sequence of committed rows, in insertion order
  channels,  \* the channels table: channel_id -> row
  sessions,  \* the app_sessions table: session_id -> row
  last,      \* the operation handled last, its outcome and what it sent
  steps,     \* number of operations handled so far
  txs,       \* connection -> the store transaction its request has open
  auth,      \* connection -> the state of its authentication handshake
  conn,      \* the connection whose request was dispatched last (0: none)
  reply      \* the payload of the last response to a read request

vars == <<ledger, channels, sessions, last, steps, txs, auth, conn, reply>>

\* What the handlers of the store leave alone: the connections.
router == <<txs, auth, conn, reply>>

ChannelStatusJoining == "joining"
ChannelStatusOpen == "open"
ChannelStatusClosed == "closed"

\* db.Transaction: the callback's writes are committed when it returns nil and
\* rolled back when it returns an error.  before and after are store snapshots.
Transaction(before, after, ok) == IF ok THEN after ELSE before

\* ---------------------------------------------------------------- chain events
ChannelIDs == {"c1", "c2", "c3"}

\* The channel id is the hash of the channel's definition, so the id fixes the
\* two participants: c1 and c2 are channels with the broker, c3 is not; c4 is a
\* second channel of A with the broker.
ChannelParticipants(id) ==
  IF id = "c3" THEN <<"A", "C">>
  ELSE IF id = "c2" THEN <<"B", Broker>>
  ELSE <<"A", Broker>>

ChannelTokens(id) ==
  IF id = "c1" THEN {"tU", "tX"} ELSE IF id = "c2" THEN {"tE", "tS"} ELSE {"tU"}

\* On-chain amounts (token base units) deposited by a Created event.
DepositAmounts == {1}

CreatedEvents ==
  { ev \in { [channel_id |-> id, participants |-> ChannelParticipants(id),
              token |-> t, amount |-> n] :
                id \in ChannelIDs, t \in Tokens, n \in DepositAmounts } :
      ev.token \in ChannelTokens(ev.channel_id) }

ChannelEvents == [channel_id : ChannelIDs]

DeltaAllocations == { <<1, 0>>, <<-1, 0>>, <<0, -1>> }
ResizedEvents == [channel_id : ChannelIDs, delta_allocations : DeltaAllocations]

\* CheckExistingChannels: a channel of the participant for the token on this
\* chain that is joining or open.
CheckExistingChannels(chs, participant, token) ==
  \E id \in DOMAIN chs :
     /\ chs[id].participant = participant
     /\ chs[id].token = token
     /\ chs[id].status \in {ChannelStatusJoining, ChannelStatusOpen}

\* CreateChannel: insert the row in status joining; channel_id is the primary key.
\* created_at is the time of the insert: rows are never deleted, so the number
\* of rows orders the inserts.
CreateChannel(chs, id, participant, token, amount) ==
  [i \in DOMAIN chs \cup {id} |->
     IF i = id
     THEN [participant |-> participant, token |-> token, amount |-> amount,
           version |-> 0, status |-> ChannelStatusJoining,
           created_at |-> Cardinality(DOMAIN chs) + 1]
     ELSE chs[i]]

\* What the handler of an operation leaves behind: op names the operation, ok
\* tells whether it succeeded (err, its error message, is not kept), id is the
\* channel or session id its response or log line names, wrote the number of
\* ledger rows its transaction callback had written when it returned, notify
\* the updates it
\* sent (balance update "bu" to an address, channel update "cu" for a channel)
\* and rows the ledger's length before it.
Done(op, ok, err, id, wrote, notify) ==
  /\ last' = [op |-> op, ok |-> ok, id |-> id, wrote |-> wrote, notify |-> notify,
              rows |-> Len(ledger)]
  /\ steps' = steps + 1

\* handleBlockChainEvent, case Created: the channels table as the handler leaves
\* it.  joinOk: whether the join transaction could be submitted to the chain.
CreatedEvent(chs, ev, joinOk) ==
  LET participantA == ev.participants[1]
      participantB == ev.participants[2]
      tokenAmount  == ToInt64(ev.amount)
      reject(err)  == [ok |-> FALSE, err |-> err, chs |-> chs]
      created      == CreateChannel(chs, ev.channel_id, participantA, ev.token,
                                    ToUint64(tokenAmount))
  IN  IF participantB # Broker THEN reject("participantB is not Broker")
      ELSE IF CheckExistingChannels(chs, participantA, ev.token)
      THEN reject("an open channel with broker already exists")
      ELSE IF ev.channel_id \in DOMAIN chs THEN reject("error creating channel")
      ELSE IF joinOk THEN [ok |-> TRUE, err |-> "", chs |-> created]
      ELSE [ok |-> FALSE, err |-> "error joining channel", chs |-> created]

HandleCreated(ev, joinOk) ==
  LET r == CreatedEvent(channels, ev, joinOk) IN
  /\ steps < MaxSteps
  /\ channels' = r.chs
  /\ UNCHANGED <<ledger, sessions>>
  /\ Done("Created", r.ok, r.err, ev.channel_id, 0,
          IF r.ok THEN {<<"cu", ev.channel_id>>} ELSE {})

\* handleBlockChainEvent, case Joined: the transaction's callback.
JoinedTx(rows, chs, id) ==
  IF id \notin DOMAIN chs
  THEN [ok |-> FALSE, err |-> "channel not found", rows |-> rows, chs |-> chs]
  ELSE
    LET channel == [chs[id] EXCEPT !.status = ChannelStatusOpen]
        saved   == [chs EXCEPT ![id] = channel]
        asset   == GetAssetByToken(channel.token)
        tokenAmount == NewFromBigInt(ToInt64(channel.amount), asset.decimals)
    IN  IF asset = NoAsset
        THEN [ok |-> FALSE, err |-> "asset not found", rows |-> rows, chs |-> saved]
        ELSE [ok |-> TRUE, err |-> "", chs |-> saved,
              rows |-> Record(rows, channel.participant, channel.participant,
                              asset.symbol, tokenAmount)]

\* handleBlockChainEvent, case Joined: the store as the handler leaves it.
JoinedEvent(rows, chs, ev) ==
  LET r == JoinedTx(rows, chs, ev.channel_id) IN
  [ok |-> r.ok, err |-> r.err, wrote |-> Len(r.rows) - Len(rows),
   rows |-> Transaction(rows, r.rows, r.ok), chs |-> Transaction(chs, r.chs, r.ok)]

HandleJoined(ev) ==
  LET r == JoinedEvent(ledger, channels, ev) IN
  /\ steps < MaxSteps
  /\ ledger' = r.rows
  /\ channels' = r.chs
  /\ UNCHANGED sessions
  /\ Done("Joined", r.ok, r.err, ev.channel_id, r.wrote,
          IF r.ok THEN {<<"bu", channels[ev.channel_id].participant>>, <<"cu", ev.channel_id>>}
          ELSE {})

\* The callback of Closed leaving the channel's version as it was.
ClosedTxSameVersion(rows, chs, id) ==
  IF id \notin DOMAIN chs
  THEN [ok |-> FALSE, err |-> "channel not found", rows |-> rows, chs |-> chs]
  ELSE
    LET channel == chs[id]
        asset   == GetAssetByToken(channel.token)
        tokenAmount == NewFromBigInt(ToInt64(channel.amount), asset.decimals)
    IN  IF asset = NoAsset
        THEN [ok |-> FALSE, err |-> "asset not found", rows |-> rows, chs |-> chs]
        ELSE [ok |-> TRUE, err |-> "",
              rows |-> Record(rows, channel.participant, channel.participant,
                              asset.symbol, 0 - tokenAmount),
              chs |-> [chs EXCEPT ![id] = [channel EXCEPT !.status = ChannelStatusClosed,
                                                          !.amount = 0]]]

\* handleBlockChainEvent, case Closed: the transaction's callback.
ClosedTx(rows, chs, id) ==
  IF id \notin DOMAIN chs
  THEN [ok |-> FALSE, err |-> "channel not found", rows |-> rows, chs |-> chs]
  ELSE
    LET channel == chs[id]
        asset   == GetAssetByToken(channel.token)
        tokenAmount == NewFromBigInt(ToInt64(channel.amount), asset.decimals)
    IN  IF asset = NoAsset
        THEN [ok |-> FALSE, err |-> "asset not found", rows |-> rows, chs |-> chs]
        ELSE [ok |-> TRUE, err |-> "",
              rows |-> Record(rows, channel.participant, channel.participant,
                              asset.symbol, 0 - tokenAmount),
              chs |-> [chs EXCEPT ![id] = [channel EXCEPT !.status = ChannelStatusClosed,
                                                          !.amount = 0,
                                                          !.version = channel.version + 1]]]

\* handleBlockChainEvent, case Closed: the store as the handler leaves it.
ClosedEvent(rows, chs, ev) ==
  LET r == ClosedTx(rows, chs, ev.channel_id) IN
  [ok |-> r.ok, err |-> r.err, wrote |-> Len(r.rows) - Len(rows),
   rows |-> Transaction(rows, r.rows, r.ok), chs |-> Transaction(chs, r.chs, r.ok)]

HandleClosed(ev) ==
  LET r == ClosedEvent(ledger, channels, ev) IN
  /\ steps < MaxSteps
  /\ ledger' = r.rows
  /\ channels' = r.chs
  /\ UNCHANGED sessions
  /\ Done("Closed", r.ok, r.err, ev.channel_id, r.wrote,
          IF r.ok THEN {<<"bu", channels[ev.channel_id].participant>>, <<"cu", ev.channel_id>>}
          ELSE {})

\* handleBlockChainEvent, case Resized: the transaction's callback.  The channel
\* row is read and saved through c.db, not through the transaction handle tx, so
\* chs is written outside the transaction; only rows is written through tx.
ResizedTx(rows, chs, id, deltas) ==
  IF id \notin DOMAIN chs
  THEN [ok |-> FALSE, err |-> "error finding channel", rows |-> rows, chs |-> chs]
  ELSE
    LET channel   == chs[id]
        newAmount == ToInt64(ToInt64(channel.amount) + ToInt64(deltas[1]) + ToInt64(deltas[2]))
        saved     == [chs EXCEPT ![id] = [channel EXCEPT !.amount = ToUint64(newAmount),
                                                         !.version = channel.version + 1]]
        resizeAmount == deltas[1]
        asset     == GetAssetByToken(channel.token)
    IN  IF resizeAmount = 0
        THEN [ok |-> TRUE, err |-> "", rows |-> rows, chs |-> saved]
        ELSE IF asset = NoAsset
        THEN [ok |-> FALSE, err |-> "asset not found", rows |-> rows, chs |-> saved]
        ELSE [ok |-> TRUE, err |-> "", chs |-> saved,
              rows |-> Record(rows, channel.participant, channel.participant, asset.symbol,
                              NewFromBigInt(resizeAmount, asset.decimals))]

\* handleBlockChainEvent, case Resized: the store as the handler leaves it.  The
\* channel row saved through c.db stays when the transaction rolls back.
ResizedEvent(rows, chs, ev) ==
  LET r == ResizedTx(rows, chs, ev.channel_id, ev.delta_allocations) IN
  [ok |-> r.ok, err |-> r.err, wrote |-> Len(r.rows) - Len(rows),
   rows |-> Transaction(rows, r.rows, r.ok), chs |-> r.chs]

HandleResized(ev) ==
  LET r == ResizedEvent(ledger, channels, ev) IN
  /\ steps < MaxSteps
  /\ ledger' = r.rows
  /\ channels' = r.chs
  /\ UNCHANGED sessions
  /\ Done("Resized", r.ok, r.err, ev.channel_id, r.wrote,
          IF r.ok THEN {<<"bu", channels[ev.channel_id].participant>>, <<"cu", ev.channel_id>>}
          ELSE {})

\* ---------------------------------------------------------------- app sessions
\* strings.ToLower on an address.
ToLower(a) ==
  IF a = "A" THEN "a" ELSE IF a = "B" THEN "b" ELSE IF a = "C" THEN "c" ELSE a

\* crypto.Keccak256Hash(json.Marshal(definition)).Hex(): injective on definitions.
AppSessionID(definition) == "0x" \o ToString(definition)

\* RecoverAddress on one element of sig: the signer's address, or an error for a
\* signature that does not decode ("bad").
BadSig == "bad"
RecoverOK(sig) == sig # BadSig
RecoverAddress(sig) == sig

RECURSIVE CreateLoopUnsigned(_, _, _, _, _)
\* The allocation loop without the signature check of lines 301-305.
CreateLoopUnsigned(rows, allocations, i, recoveredAddresses, appSessionID) ==
  IF i > Len(allocations) THEN [ok |-> TRUE, err |-> "", rows |-> rows]
  ELSE
    LET allocation == allocations[i]
        balance == Balance(rows, allocation.participant, allocation.participant,
                           allocation.asset_symbol)
        debited == Record(rows, allocation.participant, allocation.participant,
                          allocation.asset_symbol, 0 - allocation.amount)
        credited == Record(debited, allocation.participant, appSessionID,
                           allocation.asset_symbol, allocation.amount)
    IN  IF allocation.amount < 0
        THEN [ok |-> FALSE, err |-> "invalid allocation", rows |-> rows]
        ELSE IF allocation.amount > balance
        THEN [ok |-> FALSE, err |-> "insufficient funds", rows |-> rows]
        ELSE CreateLoopUnsigned(credited, allocations, i + 1, recoveredAddresses,
                                appSessionID)

RECURSIVE CreateLoop(_, _, _, _, _)
\* The allocation loop of HandleCreateApplication, lines 297-321, from
\* allocation i on; rows is the ledger inside the transaction.
CreateLoop(rows, allocations, i, recoveredAddresses, appSessionID) ==
  IF i > Len(allocations) THEN [ok |-> TRUE, err |-> "", rows |-> rows]
  ELSE
    LET allocation == allocations[i]
        balance == Balance(rows, allocation.participant, allocation.participant,
                           allocation.asset_symbol)
        debited == Record(rows, allocation.participant, allocation.participant,
                          allocation.asset_symbol, 0 - allocation.amount)
        credited == Record(debited, allocation.participant, appSessionID,
                           allocation.asset_symbol, allocation.amount)
    IN  IF allocation.amount < 0
        THEN [ok |-> FALSE, err |-> "invalid allocation", rows |-> rows]
        ELSE IF allocation.amount > 0 /\ allocation.participant \notin recoveredAddresses
        THEN [ok |-> FALSE, err |-> "missing signature", rows |-> rows]
        ELSE IF allocation.amount > balance
        THEN [ok |-> FALSE, err |-> "insufficient funds", rows |-> rows]
        ELSE CreateLoop(credited, allocations, i + 1, recoveredAddresses, appSessionID)

\* tx.Create(appSession): session_id is the primary key of app_sessions.
InsertAppSession(sess, id, row) ==
  [i \in DOMAIN sess \cup {id} |-> IF i = id THEN row ELSE sess[i]]

\* The definition with the nonce defaulted to the request timestamp.
WithNonce(definition, timestamp) ==
  IF definition.nonce = 0 THEN [definition EXCEPT !.nonce = timestamp] ELSE definition

\* The callback of HandleCreateApplication writing the session row over an
\* existing one with the same session_id.
CreateTxUpsert(rows, sess, req) ==
  LET definition == WithNonce(req.definition, req.timestamp)
      appSessionID == AppSessionID(definition)
      recoveredAddresses == { RecoverAddress(req.sig[k]) : k \in 1..Len(req.sig) }
      loop == CreateLoop(rows, req.allocations, 1, recoveredAddresses, appSessionID)
      appSession == [participants |-> definition.participants,
                     weights |-> [k \in 1..Len(definition.weights) |->
                                    ToInt64(definition.weights[k])],
                     quorum |-> definition.quorum,
                     nonce |-> definition.nonce,
                     version |-> req.timestamp,
                     status |-> ChannelStatusOpen]
  IN  IF ~loop.ok THEN [ok |-> FALSE, err |-> loop.err, rows |-> loop.rows, sess |-> sess]
      ELSE [ok |-> TRUE, err |-> "", rows |-> loop.rows,
            sess |-> InsertAppSession(sess, appSessionID, appSession)]

\* The transaction callback of HandleCreateApplication.
CreateTx(rows, sess, req) ==
  LET definition == WithNonce(req.definition, req.timestamp)
      appSessionID == AppSessionID(definition)
      recoveredAddresses == { RecoverAddress(req.sig[k]) : k \in 1..Len(req.sig) }
      loop == CreateLoop(rows, req.allocations, 1, recoveredAddresses, appSessionID)
      appSession == [participants |-> definition.participants,
                     weights |-> [k \in 1..Len(definition.weights) |->
                                    ToInt64(definition.weights[k])],
                     quorum |-> definition.quorum,
                     nonce |-> definition.nonce,
                     version |-> req.timestamp,
                     status |-> ChannelStatusOpen]
  IN  IF ~loop.ok THEN [ok |-> FALSE, err |-> loop.err, rows |-> loop.rows, sess |-> sess]
      ELSE IF appSessionID \in DOMAIN sess
      THEN [ok |-> FALSE, err |-> "failed to record virtual app", rows |-> loop.rows,
            sess |-> sess]
      ELSE [ok |-> TRUE, err |-> "", rows |-> loop.rows,
            sess |-> InsertAppSession(sess, appSessionID, appSession)]

\* HandleCreateApplication writing to the store outside a transaction: what the
\* callback wrote before it failed stays.
CreateApplicationNoRollback(rows, sess, req) ==
  LET id == AppSessionID(WithNonce(req.definition, req.timestamp))
      fail(err) == [ok |-> FALSE, err |-> err, id |-> id, wrote |-> 0, rows |-> rows,
                    sess |-> sess]
      tx == CreateTx(rows, sess, req)
  IN  IF Len(req.definition.participants) < 2 THEN fail("invalid number of participants")
      ELSE IF Len(req.allocations) # Len(req.definition.participants)
      THEN fail("number of allocations must be equal to participants")
      ELSE IF Len(req.definition.weights) # Len(req.definition.participants)
      THEN fail("number of weights must be equal to participants")
      ELSE IF \E k \in 1..Len(req.sig) : ~RecoverOK(req.sig[k]) THEN fail("invalid signature")
      ELSE [ok |-> tx.ok, err |-> tx.err, id |-> id, wrote |-> Len(tx.rows) - Len(rows),
            rows |-> tx.rows, sess |-> tx.sess]

\* HandleCreateApplication: the checks before the transaction, then the
\* transaction; the result carries the store as committed.
CreateApplication(rows, sess, req) ==
  LET id == AppSessionID(WithNonce(req.definition, req.timestamp))
      fail(err) == [ok |-> FALSE, err |-> err, id |-> id, wrote |-> 0, rows |-> rows,
                    sess |-> sess]
      tx == CreateTx(rows, sess, req)
  IN  IF Len(req.definition.participants) < 2 THEN fail("invalid number of participants")
      ELSE IF Len(req.allocations) # Len(req.definition.participants)
      THEN fail("number of allocations must be equal to participants")
      ELSE IF Len(req.definition.weights) # Len(req.definition.participants)
      THEN fail("number of weights must be equal to participants")
      ELSE IF \E k \in 1..Len(req.sig) : ~RecoverOK(req.sig[k]) THEN fail("invalid signature")
      ELSE [ok |-> tx.ok, err |-> tx.err, id |-> id, wrote |-> Len(tx.rows) - Len(rows),
            rows |-> Transaction(rows, tx.rows, tx.ok),
            sess |-> Transaction(sess, tx.sess, tx.ok)]

HandleCreateApplication(req) ==
  LET r == CreateApplication(ledger, sessions, req) IN
  /\ steps < MaxSteps
  /\ ledger' = r.rows
  /\ sessions' = r.sess
  /\ UNCHANGED channels
  /\ Done("create_app_session", r.ok, r.err, r.id, r.wrote, {})

\* participantWeights of HandleCloseApplication: lower-cased address -> weight;
\* a later entry of the participants list overwrites an earlier one.
ParticipantWeights(appSession) ==
  [a \in { ToLower(appSession.participants[k]) : k \in 1..Len(appSession.participants) } |->
     LET k == CHOOSE k \in 1..Len(appSession.participants) :
                /\ ToLower(appSession.participants[k]) = a
                /\ \A m \in (k + 1)..Len(appSession.participants) :
                     ToLower(appSession.participants[m]) # a
     IN  appSession.weights[k]]

RECURSIVE SignerLoop(_, _, _, _, _)
\* The signature loop of HandleCloseApplication, lines 413-433, from
\* signature i on.
SignerLoop(sig, i, seen, totalWeight, participantWeights) ==
  IF i > Len(sig) THEN [ok |-> TRUE, err |-> "", totalWeight |-> totalWeight]
  ELSE
    LET recovered == ToLower(RecoverAddress(sig[i])) IN
    IF ~RecoverOK(sig[i]) THEN [ok |-> FALSE, err |-> "invalid signature", totalWeight |-> totalWeight]
    ELSE IF recovered \in seen
    THEN [ok |-> FALSE, err |-> "duplicate signature", totalWeight |-> totalWeight]
    ELSE IF recovered \notin DOMAIN participantWeights
    THEN [ok |-> FALSE, err |-> "signature from unknown participant", totalWeight |-> totalWeight]
    ELSE IF participantWeights[recovered] <= 0
    THEN [ok |-> FALSE, err |-> "zero weight for signer", totalWeight |-> totalWeight]
    ELSE SignerLoop(sig, i + 1, seen \cup {recovered},
                    ToInt64(totalWeight + participantWeights[recovered]), participantWeights)

RECURSIVE SessionBal(_, _, _, _, _)
\* sessionBal[asset] of HandleCloseApplication, lines 438-449: the sum over the
\* session's participants, from participant i on, of each one's ledger's
\* Balance of the session account.
SessionBal(rows, appSession, sessionID, asset, i) ==
  IF i > Len(appSession.participants) THEN 0
  ELSE Balance(rows, appSession.participants[i], sessionID, asset)
       + SessionBal(rows, appSession, sessionID, asset, i + 1)

RECURSIVE CloseLoop(_, _, _, _, _, _, _)
\* The allocation loop of HandleCloseApplication, lines 454-483, from
\* allocation i on.  allocationSum is a function over the assets summed so far.
CloseLoop(rows, allocations, i, participantsSeen, allocationSum, participantWeights, sessionID) ==
  IF i > Len(allocations)
  THEN [ok |-> TRUE, err |-> "", rows |-> rows, participantsSeen |-> participantsSeen,
        allocationSum |-> allocationSum]
  ELSE
    LET alloc == allocations[i]
        addr == ToLower(alloc.participant)
        fail(err) == [ok |-> FALSE, err |-> err, rows |-> rows,
                      participantsSeen |-> participantsSeen, allocationSum |-> allocationSum]
        balance == Balance(rows, alloc.participant, sessionID, alloc.asset_symbol)
        debited == Record(rows, alloc.participant, sessionID, alloc.asset_symbol, 0 - balance)
        credited == Record(debited, alloc.participant, alloc.participant, alloc.asset_symbol,
                           alloc.amount)
        summed == [a \in DOMAIN allocationSum \cup {alloc.asset_symbol} |->
                     (IF a \in DOMAIN allocationSum THEN allocationSum[a] ELSE 0)
                     + (IF a = alloc.asset_symbol THEN alloc.amount ELSE 0)]
    IN  IF addr \notin DOMAIN participantWeights THEN fail("allocation to non-participant")
        ELSE IF addr \in participantsSeen THEN fail("participant appears more than once")
        ELSE IF balance # alloc.amount THEN fail("allocation mismatch")
        ELSE CloseLoop(credited, allocations, i + 1, participantsSeen \cup {addr}, summed,
                       participantWeights, sessionID)

\* The transaction callback of HandleCloseApplication.
CloseTx(rows, sess, req) ==
  LET id == req.app_session_id
      fail(err, r) == [ok |-> FALSE, err |-> err, rows |-> r, sess |-> sess]
  IN
  IF ~(id \in DOMAIN sess /\ sess[id].status = ChannelStatusOpen)
  THEN fail("virtual app not found or not open", rows)
  ELSE
    LET appSession == sess[id]
        participantWeights == ParticipantWeights(appSession)
        signers == SignerLoop(req.sig, 1, {}, 0, participantWeights)
        assets == { req.allocations[k].asset_symbol : k \in 1..Len(req.allocations) }
        sessionBal == [a \in assets |-> SessionBal(rows, appSession, id, a, 1)]
        loop == CloseLoop(rows, req.allocations, 1, {}, <<>>, participantWeights, id)
    IN  IF ~signers.ok THEN fail(signers.err, rows)
        ELSE IF signers.totalWeight < ToInt64(appSession.quorum) THEN fail("quorum not met", rows)
        ELSE IF ~loop.ok THEN fail(loop.err, loop.rows)
        ELSE IF Cardinality(loop.participantsSeen) # Len(appSession.participants)
        THEN fail("allocations must be provided for every participant exactly once", loop.rows)
        ELSE IF \E a \in DOMAIN sessionBal :
                  a \notin DOMAIN loop.allocationSum \/ sessionBal[a] # loop.allocationSum[a]
        THEN fail("asset not fully redistributed", loop.rows)
        ELSE IF \E a \in DOMAIN loop.allocationSum : a \notin DOMAIN sessionBal
        THEN fail("allocation references unknown asset", loop.rows)
        ELSE [ok |-> TRUE, err |-> "", rows |-> loop.rows,
              sess |-> [sess EXCEPT ![id].status = ChannelStatusClosed]]

\* HandleCloseApplication writing to the store outside a transaction: what the
\* callback wrote before it failed stays.
CloseApplicationNoRollback(rows, sess, req) ==
  LET fail(err) == [ok |-> FALSE, err |-> err, wrote |-> 0, rows |-> rows, sess |-> sess]
      tx == CloseTx(rows, sess, req)
  IN  IF Len(req.allocations) = 0 THEN fail("missing required parameters")
      ELSE IF \E k \in 1..Len(req.allocations) : req.allocations[k].amount < 0
      THEN fail("invalid allocation row")
      ELSE [ok |-> tx.ok, err |-> tx.err, wrote |-> Len(tx.rows) - Len(rows),
            rows |-> tx.rows, sess |-> tx.sess]

\* HandleCloseApplication: the checks before the transaction, then the
\* transaction; the result carries the store as committed.
CloseApplication(rows, sess, req) ==
  LET fail(err) == [ok |-> FALSE, err |-> err, wrote |-> 0, rows |-> rows, sess |-> sess]
      tx == CloseTx(rows, sess, req)
  IN  IF Len(req.allocations) = 0 THEN fail("missing required parameters")
      ELSE IF \E k \in 1..Len(req.allocations) : req.allocations[k].amount < 0
      THEN fail("invalid allocation row")
      ELSE [ok |-> tx.ok, err |-> tx.err, wrote |-> Len(tx.rows) - Len(rows),
            rows |-> Transaction(rows, tx.rows, tx.ok),
            sess |-> Transaction(sess, tx.sess, tx.ok)]

HandleCloseApplication(req) ==
  LET r == CloseApplication(ledger, sessions, req) IN
  /\ steps < MaxSteps
  /\ ledger' = r.rows
  /\ sessions' = r.sess
  /\ UNCHANGED channels
  /\ Done("close_app_session", r.ok, r.err, req.app_session_id, r.wrote, {})

\* ---------------------------------------------------------------- channel requests
\* GetChannelByID: the channel row, or an error when there is none.
GetChannelByID(chs, id) == id \in DOMAIN chs

\* ValidateSignature(reqBytes, rpc.Sig[0], channel.Participant): the first
\* signature recovers to the channel's participant.
ValidateSignature(sig, participant) == RecoverOK(sig) /\ RecoverAddress(sig) = participant

IntentRESIZE == "RESIZE"
IntentFINALIZE == "FINALIZE"

NoState == [intent |-> "", version |-> 0, allocations |-> <<>>, resize_amounts |-> <<>>]

\* HandleResizeChannel: the response.  It reads the store and writes nothing.
ResizeChannel(rows, chs, req) ==
  LET fail(err) == [ok |-> FALSE, err |-> err, state |-> NoState] IN
  IF ~GetChannelByID(chs, req.channel_id) THEN fail("failed to find channel")
  ELSE
    LET channel == chs[req.channel_id]
        asset   == GetAssetBySymbol(channel.token)
        balance == Balance(rows, channel.participant, req.channel_id, asset.symbol)
        rawNewChannelAmount == ShiftBigInt(req.participant_change, asset.decimals)
        brokerPart == ToUint64(channel.amount - BigUint64(rawNewChannelAmount))
    IN  IF ~ValidateSignature(req.sig, channel.participant) THEN fail("invalid signature")
        ELSE IF asset = NoAsset THEN fail("asset not found")
        ELSE IF balance < req.participant_change THEN fail("insufficient unified balance")
        ELSE [ok |-> TRUE, err |-> "",
              state |-> [intent |-> IntentRESIZE,
                         version |-> ToInt64(channel.version) + 1,
                         allocations |-> <<rawNewChannelAmount, 0>>,
                         resize_amounts |-> <<0, ToInt64(0 - ToInt64(brokerPart))>>]]

\* HandleResizeChannel applying the change it signs to the participant's
\* account, instead of leaving that to the Resized event.
HandleResizeChannelApplied(req) ==
  LET r == ResizeChannel(ledger, channels, req) IN
  /\ steps < MaxSteps
  /\ ledger' = IF r.ok
               THEN Record(ledger, channels[req.channel_id].participant,
                           channels[req.channel_id].participant,
                           GetAssetBySymbol(channels[req.channel_id].token).symbol,
                           req.participant_change)
               ELSE ledger
  /\ UNCHANGED <<channels, sessions>>
  /\ Done("resize_channel", r.ok, r.err, req.channel_id, 0, {})

HandleResizeChannel(req) ==
  LET r == ResizeChannel(ledger, channels, req) IN
  /\ steps < MaxSteps
  /\ UNCHANGED <<ledger, channels, sessions>>
  /\ Done("resize_channel", r.ok, r.err, req.channel_id, 0, {})

\* HandleCloseChannel: the response.  It reads the store and writes nothing.
CloseChannel(rows, chs, req) ==
  LET fail(err) == [ok |-> FALSE, err |-> err, state |-> NoState] IN
  IF ~GetChannelByID(chs, req.channel_id) THEN fail("failed to find channel")
  ELSE
    LET channel == chs[req.channel_id]
        asset   == GetAssetBySymbol(channel.token)
        balance == Balance(rows, channel.participant, req.channel_id, asset.symbol)
        rawBalance == ShiftBigInt(balance, asset.decimals)
        channelAmount == channel.amount
    IN  IF ~ValidateSignature(req.sig, channel.participant) THEN fail("invalid signature")
        ELSE IF asset = NoAsset THEN fail("asset not found")
        ELSE IF balance < 0 THEN fail("insufficient funds for participant")
        ELSE IF channelAmount < rawBalance THEN fail("resize this channel first")
        ELSE [ok |-> TRUE, err |-> "",
              state |-> [intent |-> IntentFINALIZE,
                         version |-> ToInt64(channel.version) + 1,
                         allocations |-> <<rawBalance, channelAmount - rawBalance>>,
                         resize_amounts |-> <<>>]]

HandleCloseChannel(req) ==
  LET r == CloseChannel(ledger, channels, req) IN
  /\ steps < MaxSteps
  /\ UNCHANGED <<ledger, channels, sessions>>
  /\ Done("close_channel", r.ok, r.err, req.channel_id, 0, {})

\* ---------------------------------------------------------------- read requests
\* GetBalances selecting the rows of the account whatever their participant.
GetLedgerBalancesOfAccount(rows, address, accountID) ==
  LET Sel(e) == e.account_id = accountID
      selected == SelectSeq(rows, Sel)
      assets == { selected[k].asset_symbol : k \in 1..Len(selected) }
  IN  { [asset_symbol |-> a, amount |-> Balance(rows, address, accountID, a)] :
          a \in assets }

\* ParticipantLedger.GetBalances: one (asset_symbol, amount) pair for every asset
\* symbol that has a row WHERE account_id = ? AND participant = ?.
GetLedgerBalances(rows, address, accountID) ==
  LET Sel(e) == e.account_id = accountID /\ e.participant = address
      selected == SelectSeq(rows, Sel)
      assets == { selected[k].asset_symbol : k \in 1..Len(selected) }
  IN  { [asset_symbol |-> a, amount |-> GetBalances(rows, address, accountID, a)] :
          a \in assets }

\* HandleGetLedgerBalances(rpc, address, db): address is the participant the
\* connection is authenticated as, accountID the "acc" parameter ("" when the
\* request has none).
HandleGetLedgerBalances(address, accountID) ==
  /\ steps < MaxSteps
  /\ reply' = GetLedgerBalances(ledger, address, accountID)
  /\ UNCHANGED <<ledger, channels, sessions>>
  /\ Done("get_ledger_balances", TRUE, "", accountID, 0, {})

\* ChannelResponse: the fields of a channel row a response carries.
ChannelResponse(chs, id) ==
  [channel_id |-> id, participant |-> chs[id].participant, status |-> chs[id].status,
   token |-> chs[id].token, amount |-> chs[id].amount,
   created_at |-> chs[id].created_at]

RECURSIVE NewestFirst(_, _)
\* The rows ids of the channels table ordered by created_at, newest first.
NewestFirst(chs, ids) ==
  IF ids = {} THEN <<>>
  ELSE LET id == CHOOSE i \in ids : \A j \in ids : chs[j].created_at <= chs[i].created_at
       IN  <<ChannelResponse(chs, id)>> \o NewestFirst(chs, ids \ {id})

\* getChannelsForParticipant returning only the channels that are open.
getOpenChannelsForParticipant(chs, participant) ==
  NewestFirst(chs, { id \in DOMAIN chs : chs[id].participant = participant
                                          /\ chs[id].status = ChannelStatusOpen })

\* getChannelsForParticipant: the participant's channels, newest first.
getChannelsForParticipant(chs, participant) ==
  NewestFirst(chs, { id \in DOMAIN chs : chs[id].participant = participant })

\* HandleGetChannels: the response.  req.participant is "" when the request has
\* no participant parameter; req.sig is rpc.Sig[0].
GetChannels(chs, req) ==
  IF req.participant = ""
  THEN [ok |-> FALSE, err |-> "missing participant parameter", channels |-> <<>>]
  ELSE IF ~ValidateSignature(req.sig, req.participant)
  THEN [ok |-> FALSE, err |-> "invalid signature", channels |-> <<>>]
  ELSE [ok |-> TRUE, err |-> "",
        channels |-> getChannelsForParticipant(chs, req.participant)]

HandleGetChannels(req) ==
  LET r == GetChannels(channels, req) IN
  /\ steps < MaxSteps
  /\ reply' = r.channels
  /\ UNCHANGED <<ledger, channels, sessions>>
  /\ Done("get_channels", r.ok, r.err, req.participant, 0, {})


\* ---------------------------------------------------------------- requests
\* The request timestamps (seconds); the timestamp defaults a zero nonce.
Timestamps == {1}

AppDefinition(p, w, q) == [participants |-> p, weights |-> w, quorum |-> q, nonce |-> 0]

\* The third definition asks for the smallest quorum that has the top bit of the
\* unsigned word set.
AppDefinitions ==
  { AppDefinition(<<"A", "B">>, <<1, 1>>, 2), AppDefinition(<<"A", "B">>, <<1, 0>>, 1),
    AppDefinition(<<"A", "B">>, <<1, 1>>, WordMod \div 2) }

AppAllocation(p, a, n) == [participant |-> p, asset_symbol |-> a, amount |-> n]

CreateAllocations ==
  { <<AppAllocation(p, a1, n1), AppAllocation("B", "eth", n2)>> :
      p \in {"A", "C"}, a1 \in Symbols, n1 \in {-1, 0, 10}, n2 \in {0, 1} }

CreateSigs == { <<>>, <<"A">>, <<"A", "B">>, <<BadSig>> }

CreateRequests ==
  [definition : AppDefinitions, allocations : CreateAllocations, sig : CreateSigs,
   timestamp : Timestamps]
  \cup { [definition |-> AppDefinition(<<"A">>, <<1>>, 1),
           allocations |-> <<AppAllocation("A", "usdc", 0)>>, sig |-> <<"A">>,
           timestamp |-> t] : t \in Timestamps }

CloseAllocations ==
  { <<AppAllocation("A", "usdc", n1)>> : n1 \in {0, 10} }
  \cup { <<AppAllocation("A", "usdc", n1), AppAllocation(p, a2, n2)>> :
           n1 \in {0, 10}, p \in Addr, a2 \in Symbols, n2 \in {0, 1, 10} }

CloseSigs == { <<>>, <<"A">>, <<"A", "B">>, <<"A", "A">>, <<"A", "C">>, <<BadSig>> }

\* The id of a session nobody created.
UnknownSession ==
  AppSessionID([participants |-> <<"A", "B">>, weights |-> <<1, 1>>, quorum |-> 1,
                nonce |-> 0])

CloseRequests(sess) ==
  [app_session_id : DOMAIN sess \cup {UnknownSession}, allocations : CloseAllocations,
   sig : CloseSigs]

\* participant_change, in ledger units: a withdrawal, a deposit of one base unit
\* of a one-decimal token, and twice that.
ParticipantChanges == {-10, 0, 10, 20}

\* The requests carry one signature (rpc.Sig[0]).
ResizeRequests ==
  [channel_id : ChannelIDs, participant_change : ParticipantChanges, sig : Users]

CloseChannelRequests == [channel_id : ChannelIDs, sig : Users]

\* get_channels requests: the participant parameter (or none) and the first
\* signature.
GetChannelsRequests == [participant : Users \cup {""}, sig : Users \cup {BadSig}]

\* create_app_session requests signed by both participants that allocate A's
\* usdc and B's eth.
SignedRequests ==
  { req \in CreateRequests :
      /\ req.sig = <<"A", "B">>
      /\ req.allocations[1].participant = "A"
      /\ req.allocations[1].asset_symbol = "usdc"
      /\ req.allocations[1].amount >= 0 }

\* The accounts a get_ledger_balances request can name: a participant's own, an
\* app session's, or none.
LedgerAccounts(sess) == Users \cup DOMAIN sess \cup {""}

\* The channels of the read requests: c4 is a second channel of A.
AllChannelIDs == ChannelIDs \cup {"c4"}

AllCreatedEvents ==
  { ev \in { [channel_id |-> id, participants |-> ChannelParticipants(id),
              token |-> t, amount |-> n] :
                id \in AllChannelIDs, t \in Tokens, n \in DepositAmounts } :
      ev.token \in ChannelTokens(ev.channel_id) }

AllChannelEvents == [channel_id : AllChannelIDs]

\* The deposits of the chain's events: the smallest, and the smallest whose
\* top bit is set in the unsigned word.
ChainDepositAmounts == DepositAmounts \cup {WordMod \div 2}

ChainCreatedEvents ==
  { ev \in { [channel_id |-> id, participants |-> ChannelParticipants(id),
              token |-> t, amount |-> n] :
                id \in AllChannelIDs, t \in Tokens, n \in ChainDepositAmounts } :
      ev.token \in ChannelTokens(ev.channel_id) }

AllResizedEvents == [channel_id : AllChannelIDs, delta_allocations : DeltaAllocations]

\* ------------------------------------------------- concurrent create_app_session
\* Each connection's requests are handled on their own goroutine, so two
\* HandleCreateApplication calls run their transactions at the same time.
Conns == {1, 2}

\* auth of a connection that has sent nothing yet: no authenticated address, no
\* outstanding challenge.
Unauthenticated == [state |-> "UNAUTH", address |-> "", challenge |-> 0, age |-> 0]

\* No transaction open.
NoTx == [pc |-> "idle", req |-> <<>>, i |-> 0, rows |-> <<>>, sess |-> FALSE]

\* The checks of HandleCreateApplication before db.Transaction.
PreTx(req) ==
  /\ Len(req.definition.participants) >= 2
  /\ Len(req.allocations) = Len(req.definition.participants)
  /\ Len(req.definition.weights) = Len(req.definition.participants)
  /\ \A k \in 1..Len(req.sig) : RecoverOK(req.sig[k])

\* The AppSession row the callback builds.
NewAppSession(req) ==
  LET definition == WithNonce(req.definition, req.timestamp) IN
  [participants |-> definition.participants,
   weights |-> [k \in 1..Len(definition.weights) |-> ToInt64(definition.weights[k])],
   quorum |-> definition.quorum,
   nonce |-> definition.nonce,
   version |-> req.timestamp,
   status |-> ChannelStatusOpen]

TxSessionID(c) == AppSessionID(WithNonce(txs[c].req.definition, txs[c].req.timestamp))

\* db.Transaction is called with no options, so the transaction runs at the
\* default isolation of the store, which for the deployed driver (postgres) is
\* READ COMMITTED: a statement sees the rows committed when it runs and the
\* rows of its own transaction.
TxView(c) == ledger \o txs[c].rows

\* The requests of the two connections: signed by A and B, debiting A's usdc.
ConcRequests ==
  { req \in CreateRequests :
      /\ req.sig = <<"A", "B">>
      /\ req.allocations[1].participant = "A"
      /\ req.allocations[1].asset_symbol = "usdc"
      /\ req.allocations[1].amount >= 0
      /\ req.allocations[2].amount = 0 }

\* db.Transaction(func(tx)...): the transaction begins.
TxBegin(c, req) ==
  /\ txs[c].pc = "idle"
  /\ steps + Cardinality({d \in Conns : txs[d].pc # "idle"}) < MaxSteps
  /\ PreTx(req)
  /\ txs' = [txs EXCEPT ![c] = [pc |-> "balance", req |-> req, i |-> 1, rows |-> <<>>,
                                sess |-> FALSE]]
  /\ UNCHANGED <<ledger, channels, sessions, last, steps, auth, conn, reply>>

\* The callback returns an error: the transaction is rolled back.
TxRollback(c, err) ==
  /\ txs' = [txs EXCEPT ![c] = NoTx]
  /\ UNCHANGED <<ledger, channels, sessions, auth, conn, reply>>
  /\ Done("create_app_session", FALSE, err, TxSessionID(c), Len(txs[c].rows), {})

\* The checks on allocation i and the SELECT of participantLedger.Balance.
TxBalance(c) ==
  /\ txs[c].pc = "balance"
  /\ LET allocation == txs[c].req.allocations[txs[c].i]
         recoveredAddresses ==
           { RecoverAddress(txs[c].req.sig[k]) : k \in 1..Len(txs[c].req.sig) }
         balance == Balance(TxView(c), allocation.participant, allocation.participant,
                            allocation.asset_symbol)
     IN  IF allocation.amount < 0 THEN TxRollback(c, "invalid allocation")
         ELSE IF allocation.amount > 0 /\ allocation.participant \notin recoveredAddresses
         THEN TxRollback(c, "missing signature")
         ELSE IF allocation.amount > balance THEN TxRollback(c, "insufficient funds")
         ELSE /\ txs' = [txs EXCEPT ![c].pc = "debit"]
              /\ UNCHANGED <<ledger, channels, sessions, last, steps, auth, conn, reply>>

\* participantLedger.Record(participant, asset, amount.Neg()): the INSERT.
TxDebit(c) ==
  /\ txs[c].pc = "debit"
  /\ LET allocation == txs[c].req.allocations[txs[c].i] IN
     txs' = [txs EXCEPT ![c].pc = "credit",
                        ![c].rows = Record(@, allocation.participant,
                                           allocation.participant,
                                           allocation.asset_symbol,
                                           0 - allocation.amount)]
  /\ UNCHANGED <<ledger, channels, sessions, last, steps, auth, conn, reply>>

\* participantLedger.Record(appSessionID, asset, amount): the INSERT; then the
\* next allocation.
TxCredit(c) ==
  /\ txs[c].pc = "credit"
  /\ LET allocation == txs[c].req.allocations[txs[c].i] IN
     txs' = [txs EXCEPT ![c].pc = IF txs[c].i < Len(txs[c].req.allocations)
                                  THEN "balance" ELSE "create",
                        ![c].i = @ + 1,
                        ![c].rows = Record(@, allocation.participant, TxSessionID(c),
                                           allocation.asset_symbol, allocation.amount)]
  /\ UNCHANGED <<ledger, channels, sessions, last, steps, auth, conn, reply>>

\* tx.Create(appSession): the INSERT waits while another open transaction has
\* inserted the same primary key, and fails when the key is committed.
TxCreate(c) ==
  /\ txs[c].pc = "create"
  /\ ~\E d \in Conns \ {c} : txs[d].sess /\ TxSessionID(d) = TxSessionID(c)
  /\ IF TxSessionID(c) \in DOMAIN sessions
     THEN TxRollback(c, "failed to record virtual app")
     ELSE /\ txs' = [txs EXCEPT ![c].pc = "commit", ![c].sess = TRUE]
          /\ UNCHANGED <<ledger, channels, sessions, last, steps, auth, conn, reply>>

\* The callback returned nil: the transaction commits its rows.
TxCommit(c) ==
  /\ txs[c].pc = "commit"
  /\ ledger' = ledger \o txs[c].rows
  /\ sessions' = InsertAppSession(sessions, TxSessionID(c), NewAppSession(txs[c].req))
  /\ txs' = [txs EXCEPT ![c] = NoTx]
  /\ UNCHANGED <<channels, auth, conn, reply>>
  /\ Done("create_app_session", TRUE, "", TxSessionID(c), Len(txs[c].rows), {})


\* ------------------------------------------------- router and authentication
\* The challenges the broker picks.
Challenges == {1, 2}

\* The challenge's time to live, in time units.
ChallengeTTL == 2

AuthMethods == {"auth_request", "auth_verify"}

\* The router taking an outstanding challenge for an authentication.
AuthenticatedOrChallenged(c) == auth[c].state \in {"AUTH", "CHALLENGED"}

\* All other methods require AUTH.
Authenticated(c) == auth[c].state = "AUTH"

\* auth_request(address), signed by address: UNAUTH -> CHALLENGED(nonce).
HandleAuthRequest(c, address, sig, challenge) ==
  LET ok == auth[c].state = "UNAUTH" /\ ValidateSignature(sig, address) IN
  /\ steps < MaxSteps
  /\ auth' = IF ok
             THEN [auth EXCEPT ![c] = [state |-> "CHALLENGED", address |-> address,
                                       challenge |-> challenge, age |-> 0]]
             ELSE auth
  /\ conn' = c
  /\ UNCHANGED <<ledger, channels, sessions, txs, reply>>
  /\ Done("auth_request", ok, "", address, 0, {})

\* Time passes on an outstanding challenge: age counts the time units since
\* the challenge was issued, up to its time to live.
ChallengeExpires(c) ==
  /\ auth[c].state = "CHALLENGED"
  /\ auth[c].age < ChallengeTTL
  /\ auth' = [auth EXCEPT ![c].age = @ + 1]
  /\ UNCHANGED <<ledger, channels, sessions, last, steps, txs, conn, reply>>

\* The check of auth_verify accepting a challenge up to and including its
\* time to live.
VerifyChallengeAtTTL(session, address, challenge, sig) ==
  /\ session.state = "CHALLENGED"
  /\ ValidateSignature(sig, address)
  /\ session.challenge = challenge
  /\ session.age <= ChallengeTTL

\* The check of auth_verify({address, challenge}): the signature recovers
\* address, the challenge is the outstanding one and is unexpired.
VerifyChallenge(session, address, challenge, sig) ==
  /\ session.state = "CHALLENGED"
  /\ ValidateSignature(sig, address)
  /\ session.challenge = challenge
  /\ session.age < ChallengeTTL

\* auth_verify: on success CHALLENGED -> AUTH(address).
HandleAuthVerify(c, address, challenge, sig) ==
  LET ok == VerifyChallenge(auth[c], address, challenge, sig) IN
  /\ steps < MaxSteps
  /\ auth' = IF ok
             THEN [auth EXCEPT ![c] = [state |-> "AUTH", address |-> address,
                                       challenge |-> 0, age |-> 0]]
             ELSE auth
  /\ conn' = c
  /\ UNCHANGED <<ledger, channels, sessions, txs, reply>>
  /\ Done("auth_verify", ok, "", address, 0, {})

\* A method that requires AUTH arrives on a connection that is not
\* authenticated: fails-unauthenticated, no handler runs.
RejectUnauthenticated(c, method) ==
  /\ ~Authenticated(c)
  /\ steps < MaxSteps
  /\ conn' = c
  /\ UNCHANGED <<ledger, channels, sessions, txs, auth, reply>>
  /\ Done(method, FALSE, "fails-unauthenticated", "", 0, {})

\* The dispatch table: the method's handler runs for an authenticated connection.
DispatchCreateApplication(c, req) ==
  /\ Authenticated(c)
  /\ HandleCreateApplication(req)
  /\ conn' = c
  /\ UNCHANGED <<txs, auth, reply>>

DispatchCloseChannel(c, req) ==
  /\ Authenticated(c)
  /\ HandleCloseChannel(req)
  /\ conn' = c
  /\ UNCHANGED <<txs, auth, reply>>


\* ---------------------------------------------------------------- specification
Init ==
  /\ ledger = <<>>
  /\ channels = <<>>
  /\ sessions = <<>>
  /\ last = [op |-> "init", ok |-> TRUE, id |-> "", wrote |-> 0, notify |-> {}, rows |-> 0]
  /\ steps = 0
  /\ txs = [c \in Conns |-> NoTx]
  /\ auth = [c \in Conns |-> Unauthenticated]
  /\ conn = 0
  /\ reply = <<>>

Created ==
  \E ev \in CreatedEvents, joinOk \in BOOLEAN : HandleCreated(ev, joinOk) /\ UNCHANGED router
Joined == \E ev \in ChannelEvents : HandleJoined(ev) /\ UNCHANGED router
Closed == \E ev \in ChannelEvents : HandleClosed(ev) /\ UNCHANGED router
Resized == \E ev \in ResizedEvents : HandleResized(ev) /\ UNCHANGED router

CreateAppSession ==
  \E req \in CreateRequests : HandleCreateApplication(req) /\ UNCHANGED router
CloseAppSession ==
  \E req \in CloseRequests(sessions) : HandleCloseApplication(req) /\ UNCHANGED router

Next == Created \/ Joined \/ Closed \/ Resized \/ CreateAppSession \/ CloseAppSession

Spec == Init /\ [][Next]_vars

\* The chain events with the channel requests resize_channel and close_channel,
\* which read the store the events and create_app_session write.
ResizeChannelRequest ==
  \E req \in ResizeRequests : HandleResizeChannel(req) /\ UNCHANGED router
CloseChannelRequest ==
  \E req \in CloseChannelRequests : HandleCloseChannel(req) /\ UNCHANGED router

NextChannels ==
  \/ Created \/ Joined \/ Closed \/ Resized \/ CreateAppSession
  \/ ResizeChannelRequest \/ CloseChannelRequest

SpecChannels == Init /\ [][NextChannels]_vars

\* The deposits of the chain events with two connections whose
\* create_app_session transactions interleave statement by statement.
Begin == \E c \in Conns, req \in ConcRequests : TxBegin(c, req)
ReadBalance == \E c \in Conns : TxBalance(c)
Debit == \E c \in Conns : TxDebit(c)
Credit == \E c \in Conns : TxCredit(c)
CreateRow == \E c \in Conns : TxCreate(c)
Commit == \E c \in Conns : TxCommit(c)

NextConc ==
  \/ Created \/ Joined
  \/ Begin \/ ReadBalance \/ Debit \/ Credit \/ CreateRow \/ Commit

SpecConc == Init /\ [][NextConc]_vars

\* The read requests get_ledger_balances and get_channels, with the chain events
\* and app sessions that fill the tables they read.
CreatedAny ==
  \E ev \in AllCreatedEvents, joinOk \in BOOLEAN :
     HandleCreated(ev, joinOk) /\ UNCHANGED router
JoinedAny == \E ev \in AllChannelEvents : HandleJoined(ev) /\ UNCHANGED router
ClosedAny == \E ev \in AllChannelEvents : HandleClosed(ev) /\ UNCHANGED router
CreateSigned == \E req \in SignedRequests : HandleCreateApplication(req) /\ UNCHANGED router
GetLedgerBalancesRequest ==
  \E address \in Users, accountID \in LedgerAccounts(sessions) :
     HandleGetLedgerBalances(address, accountID) /\ UNCHANGED <<txs, auth, conn>>
GetChannelsRequest ==
  \E req \in GetChannelsRequests : HandleGetChannels(req) /\ UNCHANGED <<txs, auth, conn>>

NextReads ==
  \/ CreatedAny \/ JoinedAny \/ ClosedAny \/ CreateSigned
  \/ GetLedgerBalancesRequest \/ GetChannelsRequest

SpecReads == Init /\ [][NextReads]_vars

\* The chain events alone, on every channel and with deposits of both sizes.
CreatedChain ==
  \E ev \in ChainCreatedEvents, joinOk \in BOOLEAN :
     HandleCreated(ev, joinOk) /\ UNCHANGED router
ResizedAny == \E ev \in AllResizedEvents : HandleResized(ev) /\ UNCHANGED router

NextChain == CreatedChain \/ JoinedAny \/ ClosedAny \/ ResizedAny

SpecChain == Init /\ [][NextChain]_vars

\* The router: every connection goes through the handshake before its requests
\* reach the handlers.
AuthRequest ==
  \E c \in Conns, address \in Users, sig \in Users, challenge \in Challenges :
     HandleAuthRequest(c, address, sig, challenge)
AuthVerify ==
  \E c \in Conns, address \in Users, challenge \in Challenges, sig \in Users :
     HandleAuthVerify(c, address, challenge, sig)
Expires == \E c \in Conns : ChallengeExpires(c)
Rejected ==
  \E c \in Conns, method \in {"create_app_session", "close_channel"} :
     RejectUnauthenticated(c, method)
DispatchedCreate == \E c \in Conns, req \in ConcRequests : DispatchCreateApplication(c, req)
DispatchedClose == \E c \in Conns, req \in CloseChannelRequests : DispatchCloseChannel(c, req)

NextAuth ==
  \/ AuthRequest \/ AuthVerify \/ Expires
  \/ Rejected \/ DispatchedCreate \/ DispatchedClose

SpecAuth == Init /\ [][NextAuth]_vars

\* ---------------------------------------------------------------- properties
\* Every account id, participant tag and asset symbol a ledger row can carry.
AccountsOf(rows) == { rows[k].account_id : k \in 1..Len(rows) }
TagsOf(rows) == { rows[k].participant : k \in 1..Len(rows) }

\* Sigma credit - Sigma debit over the rows of one (account, participant, asset).
RowBalance(rows, accountID, participant, assetSymbol) ==
  LET Sel(e) == e.account_id = accountID /\ e.participant = participant
                /\ e.asset_symbol = assetSymbol
  IN  SumRows(SelectSeq(rows, Sel), 1)

\* Sigma credit - Sigma debit over all rows of one asset symbol.
SymbolTotal(rows, assetSymbol) ==
  LET Sel(e) == e.asset_symbol = assetSymbol IN SumRows(SelectSeq(rows, Sel), 1)

\* Sigma credit - Sigma debit over all rows of one account and asset symbol.
Pooled(rows, accountID, assetSymbol) ==
  LET Sel(e) == e.account_id = accountID /\ e.asset_symbol = assetSymbol
  IN  SumRows(SelectSeq(rows, Sel), 1)

\* One channel's on-chain amount in ledger decimals, if it is of the symbol.
ChannelAmount(ch, assetSymbol) ==
  LET asset == GetAssetByToken(ch.token)
  IN  IF asset.symbol = assetSymbol THEN NewFromBigInt(ch.amount, asset.decimals) ELSE 0

RECURSIVE ChannelSum(_, _, _)
ChannelSum(chs, ids, assetSymbol) ==
  IF ids = {} THEN 0
  ELSE LET id == CHOOSE id \in ids : TRUE
       IN  ChannelAmount(chs[id], assetSymbol) + ChannelSum(chs, ids \ {id}, assetSymbol)

\* The sum of the channels' on-chain amounts of one symbol, in ledger decimals.
ChannelTotal(chs, assetSymbol) == ChannelSum(chs, DOMAIN chs, assetSymbol)

\* C1: after any sequence of committed operations the balance of every
\* (account_id, participant, asset_symbol) is >= 0.
C1_NonNegativity ==
  \A acc \in AccountsOf(ledger), p \in TagsOf(ledger), a \in Symbols :
     RowBalance(ledger, acc, p, a) >= 0

\* C2: for each asset symbol, Sigma credit - Sigma debit over all ledger rows
\* of the symbol equals the sum of the amounts of all channels of that symbol,
\* converted from base units to decimals.
C2_Conservation ==
  \A a \in Symbols : SymbolTotal(ledger, a) = ChannelTotal(channels, a)

\* --- what a close_app_session request asks for, stated from the session row
\* Recovered signers of a request, and whether they are pairwise distinct.
Signers(sig) == { sig[k] : k \in 1..Len(sig) }
DistinctSigners(sig) == \A j, k \in 1..Len(sig) : j # k => sig[j] # sig[k]

\* The weight the session gives an address (0 for a non-participant).
WeightOf(appSession, a) ==
  IF \E k \in 1..Len(appSession.participants) : appSession.participants[k] = a
  THEN appSession.weights[CHOOSE k \in 1..Len(appSession.participants) :
                            appSession.participants[k] = a]
  ELSE 0

RECURSIVE WeightSum(_, _)
WeightSum(appSession, S) ==
  IF S = {} THEN 0
  ELSE LET a == CHOOSE a \in S : TRUE
       IN  WeightOf(appSession, a) + WeightSum(appSession, S \ {a})

MembersOf(appSession) ==
  { appSession.participants[k] : k \in 1..Len(appSession.participants) }

\* The signatures recover to pairwise distinct session participants of positive
\* weight whose weights sum to at least the quorum.
QuorumSigned(appSession, sig) ==
  /\ \A k \in 1..Len(sig) : RecoverOK(sig[k])
  /\ DistinctSigners(sig)
  /\ \A a \in Signers(sig) : a \in MembersOf(appSession) /\ WeightOf(appSession, a) > 0
  /\ WeightSum(appSession, Signers(sig)) >= appSession.quorum

RECURSIVE AllocSum(_, _, _, _)
\* The sum of the allocations i.. that name participant p (any participant when
\* p = "*") and the asset.
AllocSum(allocations, i, p, assetSymbol) ==
  IF i > Len(allocations) THEN 0
  ELSE (IF allocations[i].asset_symbol = assetSymbol
           /\ (p = "*" \/ allocations[i].participant = p)
        THEN allocations[i].amount ELSE 0)
       + AllocSum(allocations, i + 1, p, assetSymbol)

\* Every session participant is named by exactly one allocation, and nobody else.
NamesEachOnce(appSession, allocations) ==
  /\ \A k \in 1..Len(allocations) : allocations[k].participant \in MembersOf(appSession)
  /\ \A a \in MembersOf(appSession) :
       Cardinality({ k \in 1..Len(allocations) : allocations[k].participant = a }) = 1

\* The per-asset sums of the allocations equal the session's pooled balances.
SumsMatchPool(rows, id, allocations) ==
  \A a \in Symbols : AllocSum(allocations, 1, "*", a) = Pooled(rows, id, a)

OpenSession(sess, id) == id \in DOMAIN sess /\ sess[id].status = ChannelStatusOpen

\* C3: after close_app_session succeeds, the balance on the session account is
\* zero for every participant and every asset, named in the request or not.
C3_ClosureTotality ==
  (last.op = "close_app_session" /\ last.ok) =>
     \A p \in TagsOf(ledger), a \in Symbols : RowBalance(ledger, last.id, p, a) = 0

\* C4: close_app_session succeeds only if the signatures recover to pairwise
\* distinct session participants of weight > 0 whose weights sum to at least
\* the session's quorum.
C4_CloseNeedsQuorum ==
  \A req \in CloseRequests(sessions) :
     CloseApplication(ledger, sessions, req).ok =>
        QuorumSigned(sessions[req.app_session_id], req.sig)

\* C5: a close_app_session request signed by a quorum, naming every participant
\* exactly once, whose per-asset sums equal the pooled session balance,
\* succeeds, and credits each participant's own account by its allocation.
C5_RedistributionSucceeds ==
  \A req \in CloseRequests(sessions) :
     LET id == req.app_session_id
         r == CloseApplication(ledger, sessions, req)
     IN  ( /\ OpenSession(sessions, id)
           /\ QuorumSigned(sessions[id], req.sig)
           /\ NamesEachOnce(sessions[id], req.allocations)
           /\ SumsMatchPool(ledger, id, req.allocations) )
         => /\ r.ok
            /\ \A k \in 1..Len(req.allocations) :
                 LET al == req.allocations[k]
                 IN  Pooled(r.rows, al.participant, al.asset_symbol)
                       = Pooled(ledger, al.participant, al.asset_symbol) + al.amount

\* C6: close_app_session is rejected whenever the allocations omit a session
\* participant, name one twice, name a non-participant, or have a per-asset
\* sum different from the pooled session balance of that asset.
C6_BadAllocationsRejected ==
  \A req \in CloseRequests(sessions) :
     LET id == req.app_session_id
     IN  ( /\ OpenSession(sessions, id)
           /\ \/ ~NamesEachOnce(sessions[id], req.allocations)
              \/ ~SumsMatchPool(ledger, id, req.allocations) )
         => ~CloseApplication(ledger, sessions, req).ok

\* C7: a close_app_session that fails leaves the committed state unchanged:
\* no ledger row of the attempt survives and the session keeps its status.
C7_CloseFailureChangesNothing ==
  [][ (last'.op = "close_app_session" /\ ~last'.ok)
        => (ledger' = ledger /\ sessions' = sessions /\ channels' = channels) ]_vars

\* A close failed after its transaction had already written ledger rows, on a
\* session that is still open.
C7_Witness ==
  /\ last.op = "close_app_session" /\ ~last.ok /\ last.wrote > 0
  /\ OpenSession(sessions, last.id)

\* C8: create_app_session succeeds only if every allocation with amount > 0 is
\* covered by a signature of its participant; an allocation with amount = 0
\* needs none (the request succeeds unsigned) and adds no ledger row (two rows
\* per positive allocation, none of them zero).
C8_PositiveAllocationsSigned ==
  \A req \in CreateRequests :
     LET r == CreateApplication(ledger, sessions, req)
         positive == { k \in 1..Len(req.allocations) : req.allocations[k].amount > 0 }
         unsigned == [req EXCEPT !.sig = <<>>]
     IN  /\ r.ok =>
              /\ \A k \in positive : req.allocations[k].participant \in Signers(req.sig)
              /\ Len(r.rows) = Len(ledger) + 2 * Cardinality(positive)
              /\ \A k \in (Len(ledger) + 1)..Len(r.rows) :
                   r.rows[k].credit + r.rows[k].debit > 0
         /\ (r.ok /\ positive = {}) => CreateApplication(ledger, sessions, unsigned).ok

\* A session was created by a request with one positive and one zero allocation.
C8_Witness ==
  /\ last.op = "create_app_session" /\ last.ok
  /\ Len(ledger) = last.rows + 2

\* C9: after a successful create_app_session each participant's own account
\* has decreased by its allocation, a reader of participant P's balance on the
\* session account sees P's allocation, and the session row exists and is open.
C9_CreateEffects ==
  \A req \in CreateRequests :
     LET r == CreateApplication(ledger, sessions, req)
     IN  r.ok =>
           /\ OpenSession(r.sess, r.id)
           /\ \A p \in MembersOf(r.sess[r.id]), a \in Symbols :
                /\ Balance(r.rows, p, p, a)
                     = Balance(ledger, p, p, a) - AllocSum(req.allocations, 1, p, a)
                /\ Balance(r.rows, p, r.id, a) = AllocSum(req.allocations, 1, p, a)

\* C10: create_app_session is all-or-nothing: when it fails, no ledger row and
\* no session row of the request is committed.
C10_CreateAllOrNothing ==
  [][ (last'.op = "create_app_session" /\ ~last'.ok)
        => (ledger' = ledger /\ sessions' = sessions /\ channels' = channels) ]_vars

\* A create failed after its transaction had already recorded a transfer.
C10_Witness ==
  last.op = "create_app_session" /\ ~last.ok /\ last.wrote > 0

\* --- chain events
ChainOps == {"Created", "Joined", "Closed", "Resized"}

\* C11: applying the same chain event twice leaves the same channel rows and the
\* same ledger balances as applying it once (a Joined delivered twice does not
\* credit twice).
C11_ReplayIdempotent ==
  /\ \A ev \in ChannelEvents :
       LET once  == JoinedEvent(ledger, channels, ev)
           twice == JoinedEvent(once.rows, once.chs, ev)
       IN  once.ok =>
             /\ twice.chs = once.chs
             /\ \A acc \in AccountsOf(twice.rows), a \in Symbols :
                  Pooled(twice.rows, acc, a) = Pooled(once.rows, acc, a)
  /\ \A ev \in ChannelEvents :
       LET once  == ClosedEvent(ledger, channels, ev)
           twice == ClosedEvent(once.rows, once.chs, ev)
       IN  once.ok =>
             /\ twice.chs = once.chs
             /\ \A acc \in AccountsOf(twice.rows), a \in Symbols :
                  Pooled(twice.rows, acc, a) = Pooled(once.rows, acc, a)
  /\ \A ev \in ResizedEvents :
       LET once  == ResizedEvent(ledger, channels, ev)
           twice == ResizedEvent(once.rows, once.chs, ev)
       IN  once.ok =>
             /\ twice.chs = once.chs
             /\ \A acc \in AccountsOf(twice.rows), a \in Symbols :
                  Pooled(twice.rows, acc, a) = Pooled(once.rows, acc, a)
  /\ \A ev \in CreatedEvents :
       LET once  == CreatedEvent(channels, ev, TRUE)
           twice == CreatedEvent(once.chs, ev, TRUE)
       IN  once.ok => twice.chs = once.chs

\* The place of a status in the lifecycle joining -> open -> closed.
StatusRank(status) ==
  IF status = ChannelStatusJoining THEN 0 ELSE IF status = ChannelStatusOpen THEN 1 ELSE 2

\* C12: a channel row is inserted as joining, its status only moves forward
\* along joining -> open -> closed, and a closed channel keeps its status and
\* its amount 0 whatever event comes later.
C12_StatusLifecycle ==
  [][ /\ \A id \in DOMAIN channels' \ DOMAIN channels :
           channels'[id].status = ChannelStatusJoining
      /\ \A id \in DOMAIN channels :
           /\ id \in DOMAIN channels'
           /\ StatusRank(channels'[id].status) >= StatusRank(channels[id].status)
           /\ channels[id].status = ChannelStatusClosed =>
                /\ channels'[id].status = ChannelStatusClosed
                /\ channels'[id].amount = 0 ]_vars

\* C17: a chain event whose application fails commits nothing: neither a
\* channel row change nor a ledger row.
C17_EventAtomicity ==
  [][ (last'.op \in ChainOps /\ ~last'.ok)
        => (ledger' = ledger /\ channels' = channels) ]_vars

\* C18: a chain event whose application failed (missing channel row, asset not
\* in the registry) is not skipped: the next chain event the reconciler
\* handles is that same event again.
C18_FailedEventRetried ==
  [][ (last.op \in {"Joined", "Closed", "Resized"} /\ ~last.ok /\ last'.op \in ChainOps)
        => (last'.op = last.op /\ last'.id = last.id) ]_vars

RECURSIVE PositiveWeightSum(_, _)
PositiveWeightSum(weights, i) ==
  IF i > Len(weights) THEN 0
  ELSE (IF weights[i] > 0 THEN weights[i] ELSE 0) + PositiveWeightSum(weights, i + 1)

\* C19: every stored AppSession row has as many weights as participants, at
\* least two of them, and positive weights that sum to at least its quorum.
C19_QuorumReachable ==
  \A id \in DOMAIN sessions :
     /\ Len(sessions[id].participants) = Len(sessions[id].weights)
     /\ Len(sessions[id].participants) >= 2
     /\ PositiveWeightSum(sessions[id].weights, 1) >= sessions[id].quorum

\* --- concurrent requests
\* C13: whatever the interleaving of two create_app_session transactions that
\* debit the same account and asset, a transaction commits only debits that the
\* committed balance of the account covers at that moment: the two never both
\* commit when their amounts together exceed the balance.
C13_ConcurrentDebitsCovered ==
  [][ \A c \in Conns :
        (txs[c].pc = "commit" /\ txs'[c].pc = "idle")
        => \A k \in 1..Len(txs[c].req.allocations) :
             txs[c].req.allocations[k].amount
               <= Balance(ledger, txs[c].req.allocations[k].participant,
                          txs[c].req.allocations[k].participant,
                          txs[c].req.allocations[k].asset_symbol) ]_vars

\* --- authentication
\* C20: a request of any method other than auth_request and auth_verify that
\* arrives on a connection not in AUTH fails and leaves ledger, sessions and
\* channels as they were; a connection enters AUTH only from CHALLENGED by a
\* successful auth_verify, and CHALLENGED only from UNAUTH by a successful
\* auth_request.
C20_AuthBeforeDispatch ==
  [][ \A c \in Conns :
        /\ (steps' # steps /\ conn' = c /\ last'.op \notin AuthMethods
              /\ auth[c].state # "AUTH")
           => (~last'.ok /\ ledger' = ledger /\ sessions' = sessions
                 /\ channels' = channels)
        /\ (auth'[c].state = "AUTH" /\ auth[c].state # "AUTH")
           => (auth[c].state = "CHALLENGED" /\ conn' = c
                 /\ last'.op = "auth_verify" /\ last'.ok)
        /\ (auth'[c].state = "CHALLENGED" /\ auth[c].state # "CHALLENGED")
           => (auth[c].state = "UNAUTH" /\ conn' = c
                 /\ last'.op = "auth_request" /\ last'.ok) ]_vars

\* An authenticated connection's create_app_session was dispatched and opened a
\* session while the other connection had not finished its handshake.
C20_Witness ==
  /\ conn \in Conns
  /\ auth[conn].state = "AUTH"
  /\ last.op = "create_app_session" /\ last.ok
  /\ last.id \in DOMAIN sessions
  /\ \E d \in Conns : auth[d].state # "AUTH"

\* The auth_verify requests a connection can send.
VerifyRequests == [address : Users, challenge : Challenges, sig : Users]

\* C21: a connection's authenticated address becomes X only in an auth_verify
\* step on that connection, from CHALLENGED, for X, before the challenge's time
\* to live has passed; and an auth_verify is accepted only if its signature
\* recovers its address and its challenge is the one the connection's
\* auth_request issued, and never once the challenge's age has reached its
\* time to live.
C21_VerifySetsAddress ==
  /\ [](\A c \in Conns, req \in VerifyRequests :
          LET ok == VerifyChallenge(auth[c], req.address, req.challenge, req.sig) IN
          /\ ok => /\ auth[c].state = "CHALLENGED"
                   /\ RecoverOK(req.sig) /\ RecoverAddress(req.sig) = req.address
                   /\ req.challenge = auth[c].challenge
                   /\ auth[c].age < ChallengeTTL
          /\ auth[c].age >= ChallengeTTL => ~ok)
  /\ [][ \A c \in Conns :
          (auth'[c].address # auth[c].address /\ auth'[c].state = "AUTH")
          => /\ conn' = c
             /\ last'.op = "auth_verify" /\ last'.ok
             /\ last'.id = auth'[c].address
             /\ auth[c].state = "CHALLENGED"
             /\ auth[c].challenge \in Challenges
             /\ auth[c].age < ChallengeTTL ]_vars

\* One connection was authenticated by its auth_verify; on the other an
\* auth_verify arrived when the challenge's age had reached its time to live and
\* was rejected.
C21_Witness ==
  /\ conn \in Conns
  /\ last.op = "auth_verify" /\ ~last.ok
  /\ auth[conn].state = "CHALLENGED" /\ auth[conn].age = ChallengeTTL
  /\ \E d \in Conns : auth[d].state = "AUTH" /\ auth[d].address \in Users

\* --- notifications
\* C24: a chain event that commits ledger rows on the account of an address
\* sends that address a balance update, every step that commits a change of a
\* channel row sends a channel update for that channel, and an operation that
\* failed sends nothing.  (The updates after create_app_session and
\* close_app_session are sent by the router, not by their handlers.)
C24_UpdatesFollowCommits ==
  [][ /\ last'.op \in ChainOps
           => \A k \in (Len(ledger) + 1)..Len(ledger') :
                 ledger'[k].account_id \in Addr
                 => <<"bu", ledger'[k].account_id>> \in last'.notify
      /\ \A id \in DOMAIN channels' :
           (id \notin DOMAIN channels \/ channels'[id] # channels[id])
           => <<"cu", id>> \in last'.notify
      /\ ~last'.ok => last'.notify = {} ]_vars

\* --- read requests
\* The rows of a ledger with account_id = accountID and participant = address.
OwnRows(rows, address, accountID) ==
  LET Own(e) == e.account_id = accountID /\ e.participant = address
  IN  SelectSeq(rows, Own)

C23_ChannelsOfParticipant ==
  /\ [](\A req \in GetChannelsRequests :
          LET r == GetChannels(channels, req)
              mine == { id \in DOMAIN channels : channels[id].participant = req.participant }
              signed == /\ req.participant # ""
                        /\ RecoverOK(req.sig) /\ RecoverAddress(req.sig) = req.participant
          IN  /\ r.ok <=> signed
              /\ ~r.ok => r.channels = <<>>
              /\ r.ok =>
                    /\ Len(r.channels) = Cardinality(mine)
                    /\ { r.channels[k].channel_id : k \in 1..Len(r.channels) } = mine
                    /\ \A k \in 1..Len(r.channels) :
                          LET row == channels[r.channels[k].channel_id] IN
                          /\ r.channels[k].participant = req.participant
                          /\ r.channels[k].status = row.status
                          /\ r.channels[k].token = row.token
                          /\ r.channels[k].amount = row.amount
                    /\ \A j, k \in 1..Len(r.channels) :
                          j < k => r.channels[j].created_at > r.channels[k].created_at)
  /\ [][ last'.op = "get_channels"
         => \E req \in GetChannelsRequests :
               /\ req.participant = last'.id
               /\ GetChannels(channels, req).ok = last'.ok
               /\ reply' = GetChannels(channels, req).channels ]_vars

\* get_channels answered with two channels of the participant while the table
\* also holds a channel of another participant.
C23_Witness ==
  /\ last.op = "get_channels" /\ last.ok
  /\ Len(reply) >= 2
  /\ \A k \in 1..Len(reply) : reply[k].participant = last.id
  /\ \E id \in DOMAIN channels : channels[id].participant # last.id

\* --- channel requests
ChannelRequestOps == {"resize_channel", "close_channel"}

\* The participant's off-chain balance of the asset of its channel's token: what
\* Joined and Resized credited and app sessions moved.
OffChainBalance(rows, channel) ==
  Balance(rows, channel.participant, channel.participant,
          GetAssetByToken(channel.token).symbol)

\* C14: resize_channel and close_channel, successful or not, add no ledger row
\* and leave every channel row as it is; the amount and version of a channel
\* row change only in a Resized or Closed event.
C14_ChannelRequestsWriteNothing ==
  [][ /\ last'.op \in ChannelRequestOps
           => (ledger' = ledger /\ channels' = channels /\ sessions' = sessions)
      /\ \A id \in DOMAIN channels :
           (id \in DOMAIN channels'
              /\ (channels'[id].amount # channels[id].amount
                    \/ channels'[id].version # channels[id].version))
           => last'.op \in {"Resized", "Closed"} ]_vars

\* A channel request on an open channel succeeded.
C14_Witness ==
  /\ last.op \in ChannelRequestOps /\ last.ok
  /\ last.id \in DOMAIN channels
  /\ channels[last.id].status = ChannelStatusOpen
  /\ Len(ledger) > 0

\* C15: resize_channel with participant_change above the participant's
\* off-chain balance of the channel's asset fails and yields no signed state;
\* with participant_change within that balance it is not refused for
\* insufficient funds.
C15_ResizeChecksBalance ==
  \A req \in ResizeRequests :
     (/\ req.channel_id \in DOMAIN channels
      /\ ValidateSignature(req.sig, channels[req.channel_id].participant)
      /\ GetAssetByToken(channels[req.channel_id].token) # NoAsset)
     => LET r == ResizeChannel(ledger, channels, req)
            balance == OffChainBalance(ledger, channels[req.channel_id])
        IN  /\ req.participant_change > balance => (~r.ok /\ r.state = NoState)
            /\ req.participant_change <= balance => r.err # "insufficient unified balance"

C29_ResizeResponse ==
  \A req \in ResizeRequests :
     (/\ req.channel_id \in DOMAIN channels
      /\ ValidateSignature(req.sig, channels[req.channel_id].participant)
      /\ GetAssetByToken(channels[req.channel_id].token) # NoAsset)
     => LET r == ResizeChannel(ledger, channels, req)
            channel == channels[req.channel_id]
            asset == GetAssetByToken(channel.token)
        IN  /\ r.ok => /\ r.state.intent = IntentRESIZE
                       /\ r.state.version = channel.version + 1
                       /\ r.state.allocations
                            = <<ShiftBigInt(req.participant_change, asset.decimals), 0>>
            /\ req.participant_change = 0 => (r.ok /\ r.state # NoState)

\* --- effects of the chain events
\* amount token base units in ledger units.
LedgerUnits(amount, asset) == amount * Pow(10, Scale - asset.decimals)

\* C25: a Joined event that is applied sets the channel's status to open,
\* leaves its amount and version and every other channel as they were, and adds
\* to the ledger one credit of channel.amount / 10^decimals on the participant's
\* own account for the symbol of the channel's token (no row for an amount of
\* zero); when the channel row or the asset is missing it fails and changes
\* nothing.
C25_JoinedEffects ==
  \A ev \in AllChannelEvents :
     LET r == JoinedEvent(ledger, channels, ev)
         id == ev.channel_id
     IN  IF id \in DOMAIN channels /\ GetAssetByToken(channels[id].token) # NoAsset
         THEN LET channel == channels[id]
                  asset == GetAssetByToken(channel.token)
              IN  r.ok =>
                    /\ r.chs = [channels EXCEPT ![id].status = ChannelStatusOpen]
                    /\ r.rows = IF channel.amount = 0 THEN ledger
                                ELSE Append(ledger,
                                            Entry(channel.participant, channel.participant,
                                                  asset.symbol,
                                                  LedgerUnits(channel.amount, asset), 0))
         ELSE ~r.ok /\ r.rows = ledger /\ r.chs = channels

\* C26: a Resized event that is applied sets the channel's amount to the old
\* amount plus the sum of the deltas, adds 1 to its version, and changes the
\* participant's own account by delta_allocations[0] / 10^decimals: a credit
\* row if positive, a debit row if negative, no row if zero.
C26_ResizedEffects ==
  \A ev \in AllResizedEvents :
     LET r == ResizedEvent(ledger, channels, ev)
         id == ev.channel_id
         deltas == ev.delta_allocations
     IN  r.ok =>
           LET channel == channels[id]
               asset == GetAssetByToken(channel.token)
           IN  /\ r.chs = [channels EXCEPT
                             ![id].amount = channel.amount + deltas[1] + deltas[2],
                             ![id].version = channel.version + 1]
               /\ r.rows = IF deltas[1] = 0 THEN ledger
                           ELSE Append(ledger,
                                  IF deltas[1] > 0
                                  THEN Entry(channel.participant, channel.participant,
                                             asset.symbol, LedgerUnits(deltas[1], asset), 0)
                                  ELSE Entry(channel.participant, channel.participant,
                                             asset.symbol, 0,
                                             LedgerUnits(0 - deltas[1], asset)))

\* C27: a Closed event that is applied debits the participant's own account by
\* the channel's amount before the event divided by 10^decimals (no row for an
\* amount of zero), and sets amount to 0, status to closed and adds 1 to version.
C27_ClosedEffects ==
  \A ev \in AllChannelEvents :
     LET r == ClosedEvent(ledger, channels, ev)
         id == ev.channel_id
     IN  r.ok =>
           LET channel == channels[id]
               asset == GetAssetByToken(channel.token)
           IN  /\ r.chs = [channels EXCEPT ![id].status = ChannelStatusClosed,
                                           ![id].amount = 0,
                                           ![id].version = channel.version + 1]
               /\ r.rows = IF channel.amount = 0 THEN ledger
                           ELSE Append(ledger,
                                       Entry(channel.participant, channel.participant,
                                             asset.symbol, 0,
                                             LedgerUnits(channel.amount, asset)))

\* C28: after a Closed event is applied for a channel whose participant holds a
\* positive balance of the channel's asset on the participant's own account,
\* that balance is zero.
C28_ClosedLeavesZero ==
  \A ev \in AllChannelEvents :
     LET r == ClosedEvent(ledger, channels, ev)
         id == ev.channel_id
     IN  (r.ok /\ OffChainBalance(ledger, channels[id]) > 0)
         => OffChainBalance(r.rows, channels[id]) = 0

\* C30: no two channel rows of the same participant and token are joining or
\* open at once; a Created event whose second participant is not the broker, or
\* that finds a joining or open channel of the participant for the token, fails
\* and inserts no row.
C30_OneLiveChannel ==
  /\ \A id1, id2 \in DOMAIN channels :
        (/\ id1 # id2
         /\ channels[id1].participant = channels[id2].participant
         /\ channels[id1].token = channels[id2].token
         /\ channels[id1].status \in {ChannelStatusJoining, ChannelStatusOpen})
        => channels[id2].status \notin {ChannelStatusJoining, ChannelStatusOpen}
  /\ \A ev \in ChainCreatedEvents, joinOk \in BOOLEAN :
        (\/ ev.participants[2] # Broker
         \/ CheckExistingChannels(channels, ev.participants[1], ev.token))
        => LET r == CreatedEvent(channels, ev, joinOk) IN ~r.ok /\ r.chs = channels

\* --- the ledger table
\* The amounts handed to Record: negative, zero and positive.
RecordAmounts == {-10, -1, 0, 1, 10}

C32_VersionMonotonic ==
  /\ [][ \A id \in DOMAIN channels :
           /\ id \in DOMAIN channels'
           /\ channels'[id].version >= channels[id].version
           /\ (last'.op \in {"Resized", "Closed"} /\ last'.ok /\ last'.id = id)
                => channels'[id].version = channels[id].version + 1
           /\ last'.op \in {"Joined", "resize_channel", "close_channel"}
                => channels'[id].version = channels[id].version ]_vars
  /\ [](\A req \in ResizeRequests :
          LET r == ResizeChannel(ledger, channels, req) IN
          r.ok => /\ r.state.version = channels[req.channel_id].version + 1
                  /\ r.state.version > channels[req.channel_id].version)
  /\ [](\A req \in CloseChannelRequests :
          LET r == CloseChannel(ledger, channels, req) IN
          r.ok => /\ r.state.version = channels[req.channel_id].version + 1
                  /\ r.state.version > channels[req.channel_id].version)

\* close_channel signed a state for a channel that a Resized and a Closed event
\* had taken to version 2.
C32_Witness ==
  /\ last.op = "close_channel" /\ last.ok
  /\ last.id \in DOMAIN channels
  /\ channels[last.id].version = 2
  /\ channels[last.id].status = ChannelStatusClosed

\* --- closing a fresh channel
\* C33: for a channel that was Created with amount N and Joined, and nothing
\* else, a close_channel request signed by its participant succeeds with a
\* FINALIZE state that allocates N to the user and 0 to the broker.
C33_CloseReturnsDeposit ==
  \A req \in CloseChannelRequests :
     (/\ steps = 2
      /\ last.op = "Joined" /\ last.ok /\ last.id = req.channel_id
      /\ ValidateSignature(req.sig, channels[req.channel_id].participant))
     => LET r == CloseChannel(ledger, channels, req) IN
        /\ r.ok
        /\ r.state.intent = IntentFINALIZE
        /\ r.state.allocations = <<channels[req.channel_id].amount, 0>>

\* --- who a session's rows belong to
\* create_app_session requests whose second allocation names B, who is not one
\* of the definition's participants, and is signed by B.
OutsiderRequests ==
  { [definition |-> AppDefinition(<<"A", "C">>, <<1, 1>>, 1),
     allocations |-> <<AppAllocation("A", "usdc", 0), AppAllocation("B", "eth", n)>>,
     sig |-> <<"B">>, timestamp |-> t] : n \in {0, 1}, t \in Timestamps }

\* C34: after a successful create_app_session every ledger row on the session's
\* account is tagged with one of the session's participants, and a request
\* with an allocation that names an address outside definition.participants
\* is rejected.
C34_SessionRowsOfMembers ==
  \A req \in CreateRequests \cup OutsiderRequests :
     LET r == CreateApplication(ledger, sessions, req) IN
     r.ok =>
       /\ \A k \in 1..Len(r.rows) :
            r.rows[k].account_id = r.id
            => r.rows[k].participant \in MembersOf(r.sess[r.id])
       /\ \A k \in 1..Len(req.allocations) :
            req.allocations[k].participant \in MembersOf(r.sess[r.id])

\* --- closing without a signature
\* create_app_session requests that ask for a quorum of 0.
ZeroQuorumRequests ==
  { [definition |-> AppDefinition(<<"A", "B">>, <<1, 1>>, 0),
     allocations |-> <<AppAllocation("A", "usdc", 0), AppAllocation("B", "eth", 0)>>,
     sig |-> sig, timestamp |-> t] : sig \in {<<>>, <<"A", "B">>}, t \in Timestamps }

\* C35: close_app_session never succeeds for a request that carries no
\* signature, whatever session it names: one stored already, or one that a
\* create_app_session (also one asking for quorum 0) stores now.
C35_CloseNeedsSignature ==
  /\ \A req \in CloseRequests(sessions) :
        req.sig = <<>> => ~CloseApplication(ledger, sessions, req).ok
  /\ \A creq \in CreateRequests \cup ZeroQuorumRequests :
        LET c == CreateApplication(ledger, sessions, creq) IN
        c.ok => \A req \in CloseRequests(c.sess) :
                   req.sig = <<>> => ~CloseApplication(c.rows, c.sess, req).ok

\* --- unsigned weights and quorum
\* create_app_session requests that give A the smallest weight whose top bit is
\* set in the unsigned word.
WideWeightRequests ==
  { [definition |-> AppDefinition(<<"A", "B">>, <<WordMod \div 2, 1>>, 1),
     allocations |-> <<AppAllocation("A", "usdc", 0), AppAllocation("B", "eth", 0)>>,
     sig |-> <<>>, timestamp |-> t] : t \in Timestamps }

\* C36: the quorum test of close_app_session agrees with the unsigned weights
\* and quorum given at creation: a close succeeds only if the weights of its
\* signers, as given, sum to at least the quorum as given, and a signer whose
\* weight as given is positive is never rejected for a zero weight.
C36_QuorumUnsigned ==
  \A creq \in CreateRequests \cup WideWeightRequests :
     LET c == CreateApplication(ledger, sessions, creq)
         given == creq.definition
     IN  c.ok =>
           \A req \in CloseRequests(c.sess) :
              req.app_session_id = c.id =>
                LET r == CloseApplication(c.rows, c.sess, req) IN
                /\ r.ok => WeightSum(given, Signers(req.sig)) >= given.quorum
                /\ (/\ \A k \in 1..Len(req.sig) : RecoverOK(req.sig[k])
                    /\ DistinctSigners(req.sig)
                    /\ \A a \in Signers(req.sig) :
                         a \in MembersOf(given) /\ WeightOf(given, a) > 0)
                   => r.err # "zero weight for signer"

\* --- channel requests and the channel's status
\* C37: resize_channel and close_channel return a signed state only for a
\* channel whose status is open; for a channel that is joining or closed they
\* return an error and no state.
C37_OnlyOpenChannelsSigned ==
  /\ \A req \in ResizeRequests :
        LET r == ResizeChannel(ledger, channels, req) IN
        /\ r.ok => channels[req.channel_id].status = ChannelStatusOpen
        /\ (req.channel_id \in DOMAIN channels
              /\ channels[req.channel_id].status # ChannelStatusOpen)
           => (~r.ok /\ r.state = NoState)
  /\ \A req \in CloseChannelRequests :
        LET r == CloseChannel(ledger, channels, req) IN
        /\ r.ok => channels[req.channel_id].status = ChannelStatusOpen
        /\ (req.channel_id \in DOMAIN channels
              /\ channels[req.channel_id].status # ChannelStatusOpen)
           => (~r.ok /\ r.state = NoState)

\* --- requests with a list of signatures
\* The sig list of a request: empty, or one signature.
SigLists == { <<>> } \cup { <<a>> : a \in Users }

\* The run-time panic of the expression rpc.Sig[0] on an empty list: the handler
\* does not return.
IndexOutOfRange == "panic: index out of range [0] with length 0"

\* What a handler leaves behind when it panics.
Panicked == [ok |-> FALSE, err |-> IndexOutOfRange, state |-> NoState]

ResizeRPCs ==
  [channel_id : ChannelIDs, participant_change : ParticipantChanges, sig : SigLists]
CloseChannelRPCs == [channel_id : ChannelIDs, sig : SigLists]
GetChannelsRPCs == [participant : Users \cup {""}, sig : SigLists]

\* HandleResizeChannel on a request with its sig list: rpc.Sig[0] is evaluated
\* once the channel has been found.
ResizeChannelRPC(rows, chs, rpc) ==
  IF ~GetChannelByID(chs, rpc.channel_id)
  THEN [ok |-> FALSE, err |-> "failed to find channel", state |-> NoState]
  ELSE IF Len(rpc.sig) = 0 THEN Panicked
  ELSE ResizeChannel(rows, chs, [channel_id |-> rpc.channel_id,
                                 participant_change |-> rpc.participant_change,
                                 sig |-> rpc.sig[1]])

\* HandleCloseChannel on a request with its sig list.
CloseChannelRPC(rows, chs, rpc) ==
  IF ~GetChannelByID(chs, rpc.channel_id)
  THEN [ok |-> FALSE, err |-> "failed to find channel", state |-> NoState]
  ELSE IF Len(rpc.sig) = 0 THEN Panicked
  ELSE CloseChannel(rows, chs, [channel_id |-> rpc.channel_id, sig |-> rpc.sig[1]])

\* HandleGetChannels on a request with its sig list: rpc.Sig[0] is evaluated
\* once the participant parameter has been found.
GetChannelsRPC(chs, rpc) ==
  IF rpc.participant = ""
  THEN [ok |-> FALSE, err |-> "missing participant parameter", channels |-> <<>>]
  ELSE IF Len(rpc.sig) = 0
  THEN [ok |-> FALSE, err |-> IndexOutOfRange, channels |-> <<>>]
  ELSE GetChannels(chs, [participant |-> rpc.participant, sig |-> rpc.sig[1]])

\* C38: a get_channels, resize_channel or close_channel request with an empty
\* sig list is answered with an error, and no request makes the handler panic
\* instead of returning.  (The three handlers write nothing to the store.)
C38_EmptySigRejected ==
  /\ \A rpc \in ResizeRPCs :
        LET r == ResizeChannelRPC(ledger, channels, rpc) IN
        r.err # IndexOutOfRange /\ (rpc.sig = <<>> => ~r.ok)
  /\ \A rpc \in CloseChannelRPCs :
        LET r == CloseChannelRPC(ledger, channels, rpc) IN
        r.err # IndexOutOfRange /\ (rpc.sig = <<>> => ~r.ok)
  /\ \A rpc \in GetChannelsRPCs :
        LET r == GetChannelsRPC(channels, rpc) IN
        r.err # IndexOutOfRange /\ (rpc.sig = <<>> => ~r.ok)

\* --- closed sessions
\* C39: close_app_session succeeds at most once per session: a session whose
\* status is closed keeps that status, every later close_app_session for it
\* fails, and no later step adds a ledger row on the session's account.
C39_ClosedSessionStaysClosed ==
  /\ [](\A req \in CloseRequests(sessions) :
          (req.app_session_id \in DOMAIN sessions
             /\ sessions[req.app_session_id].status = ChannelStatusClosed)
          => ~CloseApplication(ledger, sessions, req).ok)
  /\ [][ \A id \in DOMAIN sessions :
           sessions[id].status = ChannelStatusClosed
           => /\ id \in DOMAIN sessions'
              /\ sessions'[id] = sessions[id]
              /\ ~(last'.op = "close_app_session" /\ last'.ok /\ last'.id = id)
              /\ \A k \in (Len(ledger) + 1)..Len(ledger') :
                   ledger'[k].account_id # id ]_vars

\* A session was closed, and a create_app_session or close_app_session that
\* came later for the same session id was refused.
C39_Witness ==
  /\ last.op \in {"create_app_session", "close_app_session"} /\ ~last.ok
  /\ last.id \in DOMAIN sessions
  /\ sessions[last.id].status = ChannelStatusClosed
  /\ steps >= 3

\* --- the channel's amount as an unsigned word
\* C40: channel.amount never wraps: a Resized event whose deltas sum below
\* -channel.amount does not raise the stored amount, and after an applied
\* Resized event the stored amount is the old amount plus the sum of the
\* deltas, as integers, and is >= 0.
C40_AmountNeverWraps ==
  \A ev \in AllResizedEvents :
     ev.channel_id \in DOMAIN channels =>
       LET r == ResizedEvent(ledger, channels, ev)
           old == channels[ev.channel_id].amount
           sum == old + ev.delta_allocations[1] + ev.delta_allocations[2]
           stored == r.chs[ev.channel_id].amount
       IN  /\ stored >= 0
           /\ r.ok => stored = sum
           /\ sum < 0 => stored <= old

====
